---- MODULE Spec2Model ----
\* Model of thorlabs_cam/thorlabs_cam.py: the CircularQueue, the
\* _ImageAcquisitionThread and the ThorlabsCameraController lifecycle,
\* together with the consumer of test_camera.py.
EXTENDS Integers, Sequences, FiniteSets, TLC

\* ---------------------------------------------------------------- bounds
MaxCams == 2        \* cameras the SDK may enumerate: 0..MaxCams
MaxIndex == 2       \* camera_index arguments tried: 0..MaxIndex
MaxFrames == 3      \* frames the device delivers in one run
MaxTakes == 3       \* get_nowait calls of the consumer in one run
MaxCloses == 1      \* explicit close() calls of the consumer in one run
MaxCap == 3         \* queue capacities tried by the queue-only specification
MaxPuts == 5        \* puts tried by the queue-only specification
MaxBitDepth == 16   \* bit depths tried by the conversion-only specification

\* ------------------------------------------------------------- constants
QueueMaxsize == 2   \* CircularQueue(maxsize=2)
OutBits == 8        \* bit_depth - 8, astype(np.uint8)
None == -1          \* Python's None, as a value comparable with integers
NoFrame == <<None, None>>   \* the (None, None) returned on queue.Empty

VARIABLES
    ncams,          \* len(camera_list) the SDK will report
    camera_index,   \* the constructor's argument
    bayer,          \* camera_sensor_type == SENSOR_TYPE.BAYER
    bit_depth,      \* camera.bit_depth
    sample,         \* one raw sample of frame.image_buffer
    pixel,          \* what _process_frame makes of that sample, or None
    ctl,            \* the controller's fields, each set (TRUE) or None (FALSE)
    hw,             \* the vendor SDK's camera and SDK handle
    m2c,            \* the mono-to-color SDK and processor
    tpc,            \* the acquisition thread's position
    is_color,       \* _ImageAcquisitionThread._is_color
    stop_event,     \* _ImageAcquisitionThread._stop_event
    frame_cnt,      \* _ImageAcquisitionThread._frame_cnt
    frame,          \* run()'s local frame (the device's frame number) or None
    devFrames,      \* frames the device has delivered so far
    polls,          \* polls and puts after stop(), faults of the loop (history)
    queue,          \* CircularQueue.queue (the deque), oldest first
    maxsize,        \* CircularQueue.maxsize
    mutex,          \* CircularQueue.mutex: "free", "producer" or "consumer"
    cpc,            \* the consumer thread's position
    retpc,          \* where a call of close() or get_nowait() returns to
    closeCtx,       \* who called the running close(): "ctor", "exit", "user"
    err,            \* the exception e caught by __init__, or "none"
    raisedErr,      \* the exception that reached the caller of __init__ or close
    ret,            \* the value of the last get_nowait()
    putLog,         \* every item enqueued, in order (history)
    takeLog,        \* every value get_nowait returned, in order (history)
    closeCalls,     \* close() invocations per caller (history)
    scope           \* the with statement: "none", "body", "normal", "error"

envVars == <<ncams, camera_index, bayer, bit_depth, sample, pixel>>
threadVars == <<tpc, is_color, stop_event, frame_cnt, frame, devFrames, polls>>
queueVars == <<queue, maxsize, mutex>>
histVars == <<putLog, takeLog>>
consVars == <<cpc, retpc, closeCtx, err, raisedErr, ret, closeCalls, scope>>
vars == <<envVars, ctl, hw, m2c, threadVars, queueVars, histVars, consVars>>

\* ------------------------------------------------------ the CircularQueue
\* Queue._get(): deque.popleft(), the oldest item.
QOldest(q) == Head(q)

\* Faulty variant: pop() in place of popleft(): the newest item goes
QRemoveNewest(q) == SubSeq(q, 1, Len(q) - 1)

QRemoveOldest(q) == Tail(q)

\* Faulty variant: the fullness test off by one: > in place of >=
QEvictLate(q, m) == IF m > 0 /\ Len(q) > m THEN QRemoveOldest(q) ELSE q

\* Faulty variant: on a full queue the newest item is dropped
QEvictNewest(q, m) == IF m > 0 /\ Len(q) >= m THEN QRemoveNewest(q) ELSE q

\* CircularQueue.put, lines 47-52: on a full queue, drop the oldest item.
QEvict(q, m) == IF m > 0 /\ Len(q) >= m THEN QRemoveOldest(q) ELSE q

\* Faulty variant: appendleft in place of append
QPutItemLeft(q, item) == <<item>> \o q

\* CircularQueue.put, line 54: Queue._put(item), deque.append.
QPutItem(q, item) == Append(q, item)

\* CircularQueue.put as a whole, under its mutex.
CircularQueuePut(q, m, item) == QPutItem(QEvict(q, m), item)

\* Faulty variant: the emptiness test off by one: a single item is not handed out
GetNowaitValueShy(q) == IF Len(q) <= 1 THEN NoFrame ELSE QOldest(q)

\* Faulty variant: the item returned is left in the queue
GetNowaitQueueKeep(q) == q

\* Queue.get_nowait as used by ThorlabsCameraController.get_nowait:
\* the value returned, and the queue left behind.
GetNowaitValue(q) == IF Len(q) = 0 THEN NoFrame ELSE QOldest(q)
GetNowaitQueue(q) == IF Len(q) = 0 THEN q ELSE QRemoveOldest(q)

\* ------------------------------------------------------------------ Init
NoCtl == [sdk |-> FALSE, camera |-> FALSE, acquisition_thread |-> FALSE,
          image_queue |-> FALSE]
NoHw == [sdkCreated |-> 0, sdkDisposes |-> 0, opened |-> 0, armed |-> FALSE,
         triggered |-> FALSE, disarms |-> 0, disposes |-> 0]
NoM2c == [sdkCreated |-> 0, sdkDisposes |-> 0, procCreated |-> 0,
          procDisposes |-> 0]
NoPolls == [afterStop |-> 0, putsAfterStop |-> 0, faults |-> 0]
NoCloseCalls == [ctor |-> 0, exit |-> 0, user |-> 0]

Init ==
    /\ ncams \in 0..MaxCams
    /\ camera_index \in 0..MaxIndex
    /\ bayer \in BOOLEAN
    /\ bit_depth = OutBits
    /\ sample = 0
    /\ pixel = None
    /\ ctl = NoCtl
    /\ hw = NoHw
    /\ m2c = NoM2c
    /\ tpc = "none"
    /\ is_color = FALSE
    /\ stop_event = FALSE
    /\ frame_cnt = 0
    /\ frame = None
    /\ devFrames = 0
    /\ polls = NoPolls
    /\ queue = <<>>
    /\ maxsize = QueueMaxsize
    /\ mutex = "free"
    /\ cpc = "sdk_create"
    /\ retpc = "none"
    /\ closeCtx = "none"
    /\ err = "none"
    /\ raisedErr = "none"
    /\ ret = NoFrame
    /\ putLog = <<>>
    /\ takeLog = <<>>
    /\ closeCalls = NoCloseCalls
    /\ scope = "none"

\* ------------------------------------------- ThorlabsCameraController.close
\* Entering close() from one of its three callers.
CallClose(ctx, back) ==
    /\ cpc' = "close_stop"
    /\ retpc' = back
    /\ closeCtx' = ctx
    /\ closeCalls' = [closeCalls EXCEPT ![ctx] = @ + 1]

\* except Exception as e: self.close(); raise e   (lines 169-171)
OpenFails(e) ==
    /\ err' = e
    /\ CallClose("ctor", "failed")
    /\ UNCHANGED <<raisedErr, ret, scope>>

\* --------------------------------------- ThorlabsCameraController.__init__
SdkCreate ==
    /\ cpc = "sdk_create"
    /\ hw' = [hw EXCEPT !.sdkCreated = @ + 1]
    /\ ctl' = [ctl EXCEPT !.sdk = TRUE]
    /\ cpc' = "discover"
    /\ UNCHANGED <<envVars, m2c, threadVars, queueVars, histVars, retpc,
                   closeCtx, err, raisedErr, ret, closeCalls, scope>>

SdkCreateFail ==
    /\ cpc = "sdk_create"
    /\ OpenFails("SdkCreateError")
    /\ UNCHANGED <<envVars, ctl, hw, m2c, threadVars, queueVars, histVars>>

\* Faulty variant: the index test off by one: > in place of >=
DiscoverOutcomeLate ==
    IF ncams = 0 THEN "ConnectionError"
    ELSE IF camera_index > ncams THEN "IndexError"
    ELSE "ok"

\* lines 148-153: discover, then the two checks of the list.
DiscoverOutcome ==
    IF ncams = 0 THEN "ConnectionError"
    ELSE IF camera_index >= ncams THEN "IndexError"
    ELSE "ok"

Discover ==
    /\ cpc = "discover"
    /\ IF DiscoverOutcome = "ok"
       THEN /\ cpc' = "open_camera"
            /\ UNCHANGED <<retpc, closeCtx, err, raisedErr, ret, closeCalls,
                           scope>>
       ELSE OpenFails(DiscoverOutcome)
    /\ UNCHANGED <<envVars, ctl, hw, m2c, threadVars, queueVars, histVars>>

DiscoverFail ==
    /\ cpc = "discover"
    /\ OpenFails("DiscoverError")
    /\ UNCHANGED <<envVars, ctl, hw, m2c, threadVars, queueVars, histVars>>

OpenCamera ==
    /\ cpc = "open_camera"
    /\ hw' = [hw EXCEPT !.opened = @ + 1]
    /\ ctl' = [ctl EXCEPT !.camera = TRUE]
    /\ cpc' = "thread_ctor"
    /\ UNCHANGED <<envVars, m2c, threadVars, queueVars, histVars, retpc,
                   closeCtx, err, raisedErr, ret, closeCalls, scope>>

OpenCameraFail ==
    /\ cpc = "open_camera"
    /\ OpenFails("OpenCameraError")
    /\ UNCHANGED <<envVars, ctl, hw, m2c, threadVars, queueVars, histVars>>

\* ---------------------------------------- _ImageAcquisitionThread.__init__
\* Lines 70-85 run to the end: the color resources exist iff the sensor is
\* a Bayer sensor, and the thread object is bound to the controller.
ThreadCtor ==
    /\ cpc = "thread_ctor"
    /\ is_color' = bayer
    /\ m2c' = IF bayer
              THEN [m2c EXCEPT !.sdkCreated = @ + 1, !.procCreated = @ + 1]
              ELSE m2c
    /\ tpc' = "ready"
    /\ ctl' = [ctl EXCEPT !.acquisition_thread = TRUE, !.image_queue = TRUE]
    /\ cpc' = "thread_start"
    /\ UNCHANGED <<envVars, hw, stop_event, frame_cnt, frame, devFrames,
                   polls, queueVars, histVars, retpc, closeCtx, err,
                   raisedErr, ret, closeCalls, scope>>

\* The stages of lines 75-83 that call into the SDK, and what exists of the
\* color resources when the call at that stage raises.
CtorStages == {"sensor_type", "m2c_sdk", "m2c_processor", "bit_depth"}
CtorStageReached(stage) == stage \in {"sensor_type", "bit_depth"} \/ bayer
M2cAtFailure(stage) ==
    IF ~bayer \/ stage \in {"sensor_type", "m2c_sdk"} THEN m2c
    ELSE IF stage = "m2c_processor" THEN [m2c EXCEPT !.sdkCreated = @ + 1]
    ELSE [m2c EXCEPT !.sdkCreated = @ + 1, !.procCreated = @ + 1]

\* The constructor raises: self._acquisition_thread stays None (line 159).
ThreadCtorFail ==
    /\ cpc = "thread_ctor"
    /\ \E stage \in CtorStages :
        /\ CtorStageReached(stage)
        /\ m2c' = M2cAtFailure(stage)
    /\ OpenFails("ThreadCtorError")
    /\ UNCHANGED <<envVars, ctl, hw, threadVars, queueVars, histVars>>

\* ------------------------------- __init__, lines 161-167, and __enter__
ThreadStart ==
    /\ cpc = "thread_start"
    /\ tpc' = "run"
    /\ cpc' = "configure"
    /\ UNCHANGED <<envVars, ctl, hw, m2c, is_color, stop_event, frame_cnt,
                   frame, devFrames, polls, queueVars, histVars, retpc,
                   closeCtx, err, raisedErr, ret, closeCalls, scope>>

\* Thread.start() raises (no new thread can be started): never started.
ThreadStartFail ==
    /\ cpc = "thread_start"
    /\ OpenFails("ThreadStartError")
    /\ UNCHANGED <<envVars, ctl, hw, m2c, threadVars, queueVars, histVars>>

Configure ==
    /\ cpc = "configure"
    /\ cpc' = "arm"
    /\ UNCHANGED <<envVars, ctl, hw, m2c, threadVars, queueVars, histVars,
                   retpc, closeCtx, err, raisedErr, ret, closeCalls, scope>>

ConfigureFail ==
    /\ cpc = "configure"
    /\ OpenFails("ConfigureError")
    /\ UNCHANGED <<envVars, ctl, hw, m2c, threadVars, queueVars, histVars>>

Arm ==
    /\ cpc = "arm"
    /\ hw' = [hw EXCEPT !.armed = TRUE]
    /\ cpc' = "trigger"
    /\ UNCHANGED <<envVars, ctl, m2c, threadVars, queueVars, histVars,
                   retpc, closeCtx, err, raisedErr, ret, closeCalls, scope>>

ArmFail ==
    /\ cpc = "arm"
    /\ OpenFails("ArmError")
    /\ UNCHANGED <<envVars, ctl, hw, m2c, threadVars, queueVars, histVars>>

Trigger ==
    /\ cpc = "trigger"
    /\ hw' = [hw EXCEPT !.triggered = TRUE]
    /\ cpc' = "enter"
    /\ UNCHANGED <<envVars, ctl, m2c, threadVars, queueVars, histVars,
                   retpc, closeCtx, err, raisedErr, ret, closeCalls, scope>>

TriggerFail ==
    /\ cpc = "trigger"
    /\ OpenFails("TriggerError")
    /\ UNCHANGED <<envVars, ctl, hw, m2c, threadVars, queueVars, histVars>>

\* with ThorlabsCameraController(...) as controller: the body is entered.
Enter ==
    /\ cpc = "enter"
    /\ cpc' = "body"
    /\ scope' = "body"
    /\ UNCHANGED <<envVars, ctl, hw, m2c, threadVars, queueVars, histVars,
                   retpc, closeCtx, err, raisedErr, ret, closeCalls>>

\* ------------------------------------------- close(), lines 183-197
\* The vendor SDK's release calls (disarm, dispose) return normally in
\* this specification; the only exception close() lets through here is
\* the one Thread.join() raises itself.
\* close() is left: by return to its caller, or (raised = an exception
\* class) by that exception. From __init__'s handler a return is followed
\* by "raise e"; an exception out of close() replaces e.
LeaveClose(raised) ==
    /\ cpc' = retpc
    /\ retpc' = "none"
    /\ closeCtx' = "none"
    /\ raisedErr' = IF closeCtx = "ctor"
                    THEN (IF raised = "none" THEN err ELSE raised)
                    ELSE raisedErr

\* Faulty variant: close() joins without having called stop()
CloseStopForgotten ==
    /\ cpc = "close_stop"
    /\ cpc' = IF ctl.acquisition_thread THEN "close_join" ELSE "close_camera"
    /\ UNCHANGED <<envVars, ctl, hw, m2c, threadVars, queueVars, histVars,
                   retpc, closeCtx, err, raisedErr, ret, closeCalls, scope>>

\* if self._acquisition_thread: self._acquisition_thread.stop()
CloseStop ==
    /\ cpc = "close_stop"
    /\ IF ctl.acquisition_thread
       THEN /\ stop_event' = TRUE
            /\ cpc' = "close_join"
       ELSE /\ cpc' = "close_camera"
            /\ UNCHANGED stop_event
    /\ UNCHANGED <<envVars, ctl, hw, m2c, tpc, is_color, frame_cnt, frame,
                   devFrames, polls, queueVars, histVars, retpc, closeCtx,
                   err, raisedErr, ret, closeCalls, scope>>

\* Faulty variant: a join that does not wait for run() to end
CloseJoinNoWait ==
    /\ cpc = "close_join"
    /\ tpc # "ready"
    /\ cpc' = "close_camera"
    /\ UNCHANGED <<envVars, ctl, hw, m2c, threadVars, queueVars, histVars,
                   retpc, closeCtx, err, raisedErr, ret, closeCalls, scope>>

\* self._acquisition_thread.join(): returns once run() has ended.
CloseJoin ==
    /\ cpc = "close_join"
    /\ tpc = "done"
    /\ cpc' = "close_camera"
    /\ UNCHANGED <<envVars, ctl, hw, m2c, threadVars, queueVars, histVars,
                   retpc, closeCtx, err, raisedErr, ret, closeCalls, scope>>

\* Thread.join() on a thread that was never started raises RuntimeError,
\* which nothing in close() catches.
CloseJoinUnstarted ==
    /\ cpc = "close_join"
    /\ tpc = "ready"
    /\ LeaveClose("RuntimeError")
    /\ UNCHANGED <<envVars, ctl, hw, m2c, threadVars, queueVars, histVars,
                   err, ret, closeCalls, scope>>

\* if self._camera: if self._camera.is_armed: self._camera.disarm()
CloseDisarm ==
    /\ cpc = "close_camera"
    /\ IF ctl.camera
       THEN /\ hw' = IF hw.armed
                     THEN [hw EXCEPT !.armed = FALSE, !.triggered = FALSE,
                                     !.disarms = @ + 1]
                     ELSE hw
            /\ cpc' = "close_dispose"
       ELSE /\ cpc' = "close_sdk"
            /\ UNCHANGED hw
    /\ UNCHANGED <<envVars, ctl, m2c, threadVars, queueVars, histVars,
                   retpc, closeCtx, err, raisedErr, ret, closeCalls, scope>>

\* self._camera.dispose()
CloseDispose ==
    /\ cpc = "close_dispose"
    /\ hw' = [hw EXCEPT !.disposes = @ + 1]
    /\ cpc' = "close_sdk"
    /\ UNCHANGED <<envVars, ctl, m2c, threadVars, queueVars, histVars,
                   retpc, closeCtx, err, raisedErr, ret, closeCalls, scope>>

\* if self._sdk: self._sdk.dispose(); then close() returns.
CloseSdk ==
    /\ cpc = "close_sdk"
    /\ hw' = IF ctl.sdk THEN [hw EXCEPT !.sdkDisposes = @ + 1] ELSE hw
    /\ LeaveClose("none")
    /\ UNCHANGED <<envVars, ctl, m2c, threadVars, queueVars, histVars,
                   err, ret, closeCalls, scope>>

\* ----------------------------------------------- the consumer's calls
\* get_nowait(), lines 178-181: Queue.get_nowait takes the queue's mutex,
InScope == cpc \in {"body", "exited"}

GetAcquire ==
    /\ InScope
    /\ ctl.image_queue
    /\ Len(takeLog) < MaxTakes
    /\ mutex = "free"
    /\ mutex' = "consumer"
    /\ retpc' = cpc
    /\ cpc' = "get_body"
    /\ UNCHANGED <<envVars, ctl, hw, m2c, threadVars, queue, maxsize,
                   histVars, closeCtx, err, raisedErr, ret, closeCalls,
                   scope>>

\* ... and under it either raises Empty, turned into (None, None), or
\* removes and returns the item _get() gives.
GetBody ==
    /\ cpc = "get_body"
    /\ ret' = GetNowaitValue(queue)
    /\ queue' = GetNowaitQueue(queue)
    /\ takeLog' = Append(takeLog, ret')
    /\ mutex' = "free"
    /\ cpc' = retpc
    /\ retpc' = "none"
    /\ UNCHANGED <<envVars, ctl, hw, m2c, threadVars, maxsize, putLog,
                   closeCtx, err, raisedErr, closeCalls, scope>>

\* controller.close() called by the user of the controller.
UserClose ==
    /\ InScope
    /\ closeCalls.user < MaxCloses
    /\ CallClose("user", cpc)
    /\ UNCHANGED <<envVars, ctl, hw, m2c, threadVars, queueVars, histVars,
                   err, raisedErr, ret, scope>>

\* Faulty variant: an __exit__ that forgets self.close()
ExitWithoutClose(kind) ==
    /\ cpc = "body"
    /\ scope' = kind
    /\ cpc' = "exited"
    /\ UNCHANGED <<envVars, ctl, hw, m2c, threadVars, queueVars, histVars,
                   retpc, closeCtx, err, raisedErr, ret, closeCalls>>

\* __exit__, lines 202-203: the with body ends, normally or by an error.
ExitScope(kind) ==
    /\ cpc = "body"
    /\ scope' = kind
    /\ CallClose("exit", "exited")
    /\ UNCHANGED <<envVars, ctl, hw, m2c, threadVars, queueVars, histVars,
                   err, raisedErr, ret>>

BodyEnds == \E kind \in {"normal", "error"} : ExitScope(kind)

\* ------------------------------------- _ImageAcquisitionThread.run
\* line 103: self._frame_cnt = 0
ThreadRun ==
    /\ tpc = "run"
    /\ frame_cnt' = 0
    /\ tpc' = "loop"
    /\ UNCHANGED <<envVars, ctl, hw, m2c, is_color, stop_event, frame,
                   devFrames, polls, queueVars, histVars, consVars>>

\* line 105: while not self._stop_event.is_set()
LoopCheck ==
    /\ tpc = "loop"
    /\ tpc' = IF stop_event THEN "cleanup" ELSE "poll"
    /\ UNCHANGED <<envVars, ctl, hw, m2c, is_color, stop_event, frame_cnt,
                   frame, devFrames, polls, queueVars, histVars, consVars>>

PollCounted ==
    IF stop_event THEN [polls EXCEPT !.afterStop = @ + 1] ELSE polls

\* Faulty variant: on None the poll is repeated at once, the stop flag
\* not looked at again
PollNullRetry ==
    /\ tpc = "poll"
    /\ frame' = None
    /\ polls' = PollCounted
    /\ tpc' = "poll"
    /\ UNCHANGED <<envVars, ctl, hw, m2c, is_color, stop_event, frame_cnt,
                   devFrames, queueVars, histVars, consVars>>

\* line 107: get_pending_frame_or_null() returns None
PollNull ==
    /\ tpc = "poll"
    /\ frame' = None
    /\ polls' = PollCounted
    /\ tpc' = "loop"
    /\ UNCHANGED <<envVars, ctl, hw, m2c, is_color, stop_event, frame_cnt,
                   devFrames, queueVars, histVars, consVars>>

\* line 107: the armed and triggered device hands over its next frame
PollFrame ==
    /\ tpc = "poll"
    /\ hw.armed /\ hw.triggered
    /\ devFrames < MaxFrames
    /\ frame' = devFrames
    /\ devFrames' = devFrames + 1
    /\ polls' = PollCounted
    /\ tpc' = "process"
    /\ UNCHANGED <<envVars, ctl, hw, m2c, is_color, stop_event, frame_cnt,
                   queueVars, histVars, consVars>>

\* Faulty variant: the exception is swallowed and the loop goes on
PollFailContinue ==
    /\ tpc = "poll"
    /\ polls' = [PollCounted EXCEPT !.faults = @ + 1]
    /\ tpc' = "loop"
    /\ UNCHANGED <<envVars, ctl, hw, m2c, is_color, stop_event, frame_cnt,
                   frame, devFrames, queueVars, histVars, consVars>>

\* line 107 raises: except Exception ... break  (lines 114-116)
PollFail ==
    /\ tpc = "poll"
    /\ polls' = [PollCounted EXCEPT !.faults = @ + 1]
    /\ tpc' = "cleanup"
    /\ UNCHANGED <<envVars, ctl, hw, m2c, is_color, stop_event, frame_cnt,
                   frame, devFrames, queueVars, histVars, consVars>>

\* line 109: image_np = self._process_frame(frame)
ProcessFrame ==
    /\ tpc = "process"
    /\ tpc' = "put_lock"
    /\ UNCHANGED <<envVars, ctl, hw, m2c, is_color, stop_event, frame_cnt,
                   frame, devFrames, polls, queueVars, histVars, consVars>>

\* line 109 raises: the loop is left by the break of line 116
ProcessFail ==
    /\ tpc = "process"
    /\ polls' = [polls EXCEPT !.faults = @ + 1]
    /\ tpc' = "cleanup"
    /\ UNCHANGED <<envVars, ctl, hw, m2c, is_color, stop_event, frame_cnt,
                   frame, devFrames, queueVars, histVars, consVars>>

\* line 110, put_nowait -> put, line 46: with self.not_full (the mutex)
PutAcquire ==
    /\ tpc = "put_lock"
    /\ mutex = "free"
    /\ mutex' = "producer"
    /\ tpc' = "put_evict"
    /\ UNCHANGED <<envVars, ctl, hw, m2c, is_color, stop_event, frame_cnt,
                   frame, devFrames, polls, queue, maxsize, histVars,
                   consVars>>

\* Faulty variant: the base class's blocking put, which waits for room
PutEvictWhenRoom ==
    /\ tpc = "put_evict"
    /\ Len(queue) < maxsize
    /\ tpc' = "put_append"
    /\ UNCHANGED <<envVars, ctl, hw, m2c, is_color, stop_event, frame_cnt,
                   frame, devFrames, polls, queueVars, histVars, consVars>>

\* lines 47-52
PutEvict ==
    /\ tpc = "put_evict"
    /\ queue' = QEvict(queue, maxsize)
    /\ tpc' = "put_append"
    /\ UNCHANGED <<envVars, ctl, hw, m2c, is_color, stop_event, frame_cnt,
                   frame, devFrames, polls, maxsize, mutex, histVars,
                   consVars>>

\* lines 54-55, and the mutex is released on leaving the with block
PutAppend ==
    /\ tpc = "put_append"
    /\ queue' = QPutItem(queue, <<frame, frame_cnt>>)
    /\ putLog' = Append(putLog, <<frame, frame_cnt>>)
    /\ polls' = IF stop_event THEN [polls EXCEPT !.putsAfterStop = @ + 1]
                ELSE polls
    /\ mutex' = "free"
    /\ tpc' = "count"
    /\ UNCHANGED <<envVars, ctl, hw, m2c, is_color, stop_event, frame_cnt,
                   frame, devFrames, maxsize, takeLog, consVars>>

\* Faulty variant: the counter is not advanced
SameFrameCnt(n) == n

\* line 111: self._frame_cnt += 1
NextFrameCnt(n) == n + 1

CountFrame ==
    /\ tpc = "count"
    /\ frame_cnt' = NextFrameCnt(frame_cnt)
    /\ tpc' = "loop"
    /\ UNCHANGED <<envVars, ctl, hw, m2c, is_color, stop_event, frame,
                   devFrames, polls, queueVars, histVars, consVars>>

\* Faulty variant: the color resources are disposed only when the loop
\* ends by the stop flag, not when it ends by the break
ThreadCleanupOnStopOnly ==
    /\ tpc = "cleanup"
    /\ m2c' = IF is_color /\ polls.faults = 0
              THEN [m2c EXCEPT !.procDisposes = @ + 1, !.sdkDisposes = @ + 1]
              ELSE m2c
    /\ tpc' = "done"
    /\ UNCHANGED <<envVars, ctl, hw, is_color, stop_event, frame_cnt, frame,
                   devFrames, polls, queueVars, histVars, consVars>>

\* lines 117-120: after the loop, the color resources are disposed
ThreadCleanup ==
    /\ tpc = "cleanup"
    /\ m2c' = IF is_color
              THEN [m2c EXCEPT !.procDisposes = @ + 1, !.sdkDisposes = @ + 1]
              ELSE m2c
    /\ tpc' = "done"
    /\ UNCHANGED <<envVars, ctl, hw, is_color, stop_event, frame_cnt, frame,
                   devFrames, polls, queueVars, histVars, consVars>>

\* -------------------------------------------------------- specification
Open ==
    \/ SdkCreate \/ SdkCreateFail
    \/ Discover \/ DiscoverFail
    \/ OpenCamera \/ OpenCameraFail
    \/ ThreadCtor \/ ThreadCtorFail
    \/ ThreadStart \/ ThreadStartFail
    \/ Configure \/ ConfigureFail
    \/ Arm \/ ArmFail
    \/ Trigger \/ TriggerFail

Close ==
    \/ CloseStop \/ CloseJoin \/ CloseJoinUnstarted
    \/ CloseDisarm \/ CloseDispose \/ CloseSdk

Consumer == Enter \/ GetAcquire \/ GetBody \/ UserClose \/ BodyEnds

Acquisition ==
    \/ ThreadRun \/ LoopCheck
    \/ PollNull \/ PollFrame \/ PollFail
    \/ ProcessFrame \/ ProcessFail
    \/ PutAcquire \/ PutEvict \/ PutAppend \/ CountFrame
    \/ ThreadCleanup

Next == Open \/ Close \/ Consumer \/ Acquisition

Spec == Init /\ [][Next]_vars

\* The same program, opened on the first of one enumerated camera, with
\* both threads scheduled fairly: the acquisition thread keeps taking
\* steps while it has one, and the consumer, once inside close() or
\* inside Queue.get_nowait, goes on to leave it; a put that finds the
\* mutex free again and again gets it.
InitFair == Init /\ ncams = 1 /\ camera_index = 0

SpecFair ==
    /\ InitFair
    /\ [][Next]_vars
    /\ WF_vars(Acquisition)
    /\ WF_vars(Close)
    /\ WF_vars(GetBody)
    /\ SF_vars(PutAcquire)

\* ------------------------- close() when a release call of the SDK raises
CloseErrors == {"RuntimeError", "DisarmError", "DisposeError",
                "SdkDisposeError"}

\* Nothing in close() catches: the exception e leaves close(). Out of a
\* close() called in the with body it leaves the body too, and __exit__
\* calls close() again; otherwise it reaches close()'s caller.
ReleaseRaises(e) ==
    /\ raisedErr' = e
    /\ IF closeCtx = "user" /\ retpc = "body"
       THEN /\ scope' = "error"
            /\ CallClose("exit", "exited")
       ELSE /\ cpc' = retpc
            /\ retpc' = "none"
            /\ closeCtx' = "none"
            /\ UNCHANGED <<scope, closeCalls>>

\* line 192: self._camera.disarm() raises, the camera stays armed
CloseDisarmFail ==
    /\ cpc = "close_camera"
    /\ ctl.camera /\ hw.armed
    /\ hw' = [hw EXCEPT !.disarms = @ + 1]
    /\ ReleaseRaises("DisarmError")
    /\ UNCHANGED <<envVars, ctl, m2c, threadVars, queueVars, histVars,
                   err, ret>>

\* line 193: self._camera.dispose() raises
CloseDisposeFail ==
    /\ cpc = "close_dispose"
    /\ hw' = [hw EXCEPT !.disposes = @ + 1]
    /\ ReleaseRaises("DisposeError")
    /\ UNCHANGED <<envVars, ctl, m2c, threadVars, queueVars, histVars,
                   err, ret>>

\* line 196: self._sdk.dispose() raises
CloseSdkFail ==
    /\ cpc = "close_sdk"
    /\ ctl.sdk
    /\ hw' = [hw EXCEPT !.sdkDisposes = @ + 1]
    /\ ReleaseRaises("SdkDisposeError")
    /\ UNCHANGED <<envVars, ctl, m2c, threadVars, queueVars, histVars,
                   err, ret>>

CloseFails == CloseDisarmFail \/ CloseDisposeFail \/ CloseSdkFail

NextRelease == Next \/ CloseFails

SpecRelease == Init /\ [][NextRelease]_vars

\* ------------------------------- _process_frame, the monochrome branch
\* numpy's >> on unsigned samples, by k >= 0 bits
RightShift(v, k) == v \div (2 ^ k)

\* astype(np.uint8): the low 8 bits are kept
AsUint8(x) == x % (2 ^ OutBits)

\* Faulty variant: the shift is forgotten
ProcessMonoUnshifted(v, b) == AsUint8(v)

\* lines 99-100
ProcessMono(v, b) == AsUint8(RightShift(v, b - OutBits))

\* One raw sample of a monochrome camera of each bit depth, converted.
InitConv ==
    /\ ncams = 0
    /\ camera_index = 0
    /\ bayer = FALSE
    /\ bit_depth \in OutBits..MaxBitDepth
    /\ sample \in 0..(2 ^ bit_depth - 1)
    /\ pixel = None
    /\ ctl = NoCtl
    /\ hw = NoHw
    /\ m2c = NoM2c
    /\ tpc = "none"
    /\ is_color = FALSE
    /\ stop_event = FALSE
    /\ frame_cnt = 0
    /\ frame = None
    /\ devFrames = 0
    /\ polls = NoPolls
    /\ queue = <<>>
    /\ maxsize = QueueMaxsize
    /\ mutex = "free"
    /\ cpc = "convert_only"
    /\ retpc = "none"
    /\ closeCtx = "none"
    /\ err = "none"
    /\ raisedErr = "none"
    /\ ret = NoFrame
    /\ putLog = <<>>
    /\ takeLog = <<>>
    /\ closeCalls = NoCloseCalls
    /\ scope = "none"

Convert ==
    /\ cpc = "convert_only"
    /\ pixel = None
    /\ pixel' = ProcessMono(sample, bit_depth)
    /\ UNCHANGED <<ncams, camera_index, bayer, bit_depth, sample, ctl, hw,
                   m2c, threadVars, queueVars, histVars, consVars>>

SpecConv == InitConv /\ [][Convert]_vars

\* ------------------------------- the queue alone, for any capacity > 0
\* A CircularQueue(maxsize) driven by one caller: puts, then takes.
InitQ ==
    /\ ncams = 0
    /\ camera_index = 0
    /\ bayer = FALSE
    /\ bit_depth = OutBits
    /\ sample = 0
    /\ pixel = None
    /\ ctl = NoCtl
    /\ hw = NoHw
    /\ m2c = NoM2c
    /\ tpc = "none"
    /\ is_color = FALSE
    /\ stop_event = FALSE
    /\ frame_cnt = 0
    /\ frame = None
    /\ devFrames = 0
    /\ polls = NoPolls
    /\ queue = <<>>
    /\ maxsize \in 1..MaxCap
    /\ mutex = "free"
    /\ cpc = "queue_only"
    /\ retpc = "none"
    /\ closeCtx = "none"
    /\ err = "none"
    /\ raisedErr = "none"
    /\ ret = NoFrame
    /\ putLog = <<>>
    /\ takeLog = <<>>
    /\ closeCalls = NoCloseCalls
    /\ scope = "none"

\* q.put_nowait(item), the items being 1, 2, 3, ... tagged with their rank
QPut ==
    /\ cpc = "queue_only"
    /\ takeLog = <<>>
    /\ Len(putLog) < MaxPuts
    /\ LET item == <<Len(putLog) + 1, Len(putLog)>> IN
        /\ queue' = CircularQueuePut(queue, maxsize, item)
        /\ putLog' = Append(putLog, item)
    /\ UNCHANGED <<envVars, ctl, hw, m2c, threadVars, maxsize, mutex,
                   takeLog, consVars>>

\* q.get_nowait(), with queue.Empty turned into (None, None)
QTake ==
    /\ cpc = "queue_only"
    /\ Len(takeLog) < MaxTakes + MaxCap
    /\ ret' = GetNowaitValue(queue)
    /\ queue' = GetNowaitQueue(queue)
    /\ takeLog' = Append(takeLog, ret')
    /\ UNCHANGED <<envVars, ctl, hw, m2c, threadVars, maxsize, mutex,
                   putLog, cpc, retpc, closeCtx, err, raisedErr, closeCalls,
                   scope>>

NextQ == QPut \/ QTake

SpecQ == InitQ /\ [][NextQ]_vars

\* ================================================================ claims
Successes(log) == SelectSeq(log, LAMBDA x : x # NoFrame)
PutRank(item) == CHOOSE i \in 1..Len(putLog) : putLog[i] = item
LastItems(log, c) == SubSeq(log, Len(log) - c + 1, Len(log))
Min(a, b) == IF a < b THEN a ELSE b
InPut == tpc \in {"put_evict", "put_append"}

\* A step of put that changes the queue removes its first item, which
\* was put before everything that stays.
EvictsOldest ==
    (tpc = "put_evict" /\ queue' # queue) =>
        /\ Len(queue') = Len(queue) - 1
        /\ \A j \in 1..Len(queue') :
            PutRank(queue[1]) < PutRank(queue'[j])
        /\ \A j \in 1..Len(queue') : queue'[j] = queue[j + 1]

\* Takes, and the queue, follow the order of the puts.
TakenInPutOrder ==
    LET got == Successes(takeLog) IN
    /\ \A i, j \in 1..Len(got) : i < j => PutRank(got[i]) < PutRank(got[j])
    /\ \A i, j \in 1..Len(queue) :
        i < j => PutRank(queue[i]) < PutRank(queue[j])
    /\ \A i \in 1..Len(got), j \in 1..Len(queue) :
        PutRank(got[i]) < PutRank(queue[j])

\* The step in which get_nowait returns: the sentinel iff the queue is
\* empty, and then nothing but the caller's own state changes.
EmptyGetStep ==
    (cpc = "get_body" /\ cpc' # cpc) =>
        /\ cpc' = retpc
        /\ (ret' = NoFrame) <=> (queue = <<>>)
        /\ queue = <<>> =>
            /\ queue' = queue
            /\ UNCHANGED <<threadVars, hw, m2c, ctl>>

ThreadWasStarted == tpc \notin {"none", "ready"}

\* The device list was obtained: Open got past discover.
Enumerated == err \notin {"SdkCreateError", "DiscoverError"}

\* C1: the maxsize=2 queue never holds more than 2 items, in any state of
\* any interleaving; the evict-then-append of put runs under the queue's
\* mutex, so the consumer's get never runs between the two, and between
\* them the queue is one short of full, never over it.
C1_QueueBounded ==
    /\ Len(queue) <= QueueMaxsize
    /\ InPut => mutex = "producer"
    /\ cpc = "get_body" => mutex = "consumer"
    /\ ~(InPut /\ cpc = "get_body")
    /\ tpc = "put_append" => Len(queue) < QueueMaxsize

\* A put on a full queue has evicted and is about to append, while the
\* consumer is free to call get_nowait.
C1_Witness ==
    /\ tpc = "put_append"
    /\ Len(putLog) = 2
    /\ Len(queue) = 1
    /\ takeLog = <<>>
    /\ cpc = "body"

\* C2: for every capacity C > 0, after N > C puts and no take the queue
\* holds exactly the last C items put, in their order, never more than C;
\* the takes that follow return those items oldest first, then (None, None).
C2_KeepsLastC ==
    /\ Len(queue) <= maxsize
    /\ Len(putLog) > maxsize =>
        LET kept == LastItems(putLog, maxsize)
            t == Len(takeLog)
        IN  /\ \A i \in 1..t :
                takeLog[i] = IF i <= maxsize THEN kept[i] ELSE NoFrame
            /\ queue = SubSeq(kept, Min(t, maxsize) + 1, maxsize)

\* Capacity 2: put(1), put(2), put(3), then takes give 2, 3, nothing.
C2_Witness ==
    /\ maxsize = 2
    /\ Len(putLog) = 3
    /\ takeLog = << <<2, 1>>, <<3, 2>> , NoFrame >>
    /\ queue = <<>>

\* C3: items are taken in the order they were put (of two items both
\* taken, the one put first is taken first; what is still queued was put
\* after everything taken and is queued in put order), and an eviction
\* removes the item put earliest among those in the queue.
C3_Fifo == []TakenInPutOrder /\ [][EvictsOldest]_vars

\* Frame 0 was evicted by the put of frame 2; frames 1 and 2 were taken.
C3_Witness ==
    /\ Len(putLog) = 3
    /\ Successes(takeLog) = << <<1, 1>>, <<2, 2>> >>

\* C4: on a non-empty queue get_nowait returns the most recently enqueued
\* pair, the one with the highest sequence number in the queue, and
\* removes it.
C4_ReturnsNewest ==
    [][(cpc = "get_body" /\ cpc' # cpc /\ queue # <<>>) =>
        /\ ret' = queue[Len(queue)]
        /\ queue' = SubSeq(queue, 1, Len(queue) - 1)]_vars

C6_ReleasedAtMostOnce ==
    /\ hw.disarms <= 1
    /\ hw.disposes <= 1
    /\ hw.sdkDisposes <= 1

\* C7: when an Open that failed has raised to its caller, the thread if
\* started has been stopped and joined, the device if opened is disarmed
\* and disposed, the SDK if created is disposed, every color-conversion
\* resource created is released, and the error raised is the original.
C7_CleanupOnFailedOpen ==
    cpc = "failed" =>
        /\ ThreadWasStarted => (stop_event /\ tpc = "done")
        /\ hw.opened > 0 => (~hw.armed /\ hw.disposes >= 1)
        /\ hw.sdkCreated > 0 => hw.sdkDisposes >= 1
        /\ m2c.sdkDisposes = m2c.sdkCreated
        /\ m2c.procDisposes = m2c.procCreated
        /\ raisedErr = err

\* C8: an empty device list fails Open with ConnectionError whatever the
\* index, and otherwise an index >= the device count fails it with
\* IndexError; then no device was opened, no thread was constructed or
\* started, and the SDK handle was disposed exactly once.
C8_InvalidSelectionRejected ==
    /\ (ncams = 0 \/ camera_index >= ncams) =>
        /\ hw.opened = 0
        /\ ~ctl.camera
        /\ tpc = "none"
        /\ cpc \in {"sdk_create", "discover", "close_stop", "close_camera",
                    "close_sdk", "failed"}
    /\ (cpc = "failed" /\ Enumerated /\ ncams = 0) =>
        /\ raisedErr = "ConnectionError"
        /\ hw.sdkDisposes = 1
    /\ (cpc = "failed" /\ Enumerated /\ ncams > 0 /\ camera_index >= ncams) =>
        /\ raisedErr = "IndexError"
        /\ hw.sdkDisposes = 1
    /\ raisedErr \in {"ConnectionError", "IndexError"} =>
        (ncams = 0 \/ camera_index >= ncams)

\* Index 2 with 2 cameras enumerated: IndexError reached the caller.
C8_Witness ==
    /\ cpc = "failed"
    /\ ncams = 2
    /\ camera_index = 2
    /\ raisedErr = "IndexError"

\* C9: leaving the with body, normally or by an error, invokes close
\* exactly once; a constructor that fails has invoked close exactly once
\* itself and the body is never entered.
C9_ScopeClosesOnce ==
    /\ scope \in {"normal", "error"} => closeCalls.exit = 1
    /\ scope \in {"none", "body"} => closeCalls.exit = 0
    /\ cpc = "exited" => scope \in {"normal", "error"}
    /\ cpc = "failed" => (closeCalls.ctor = 1 /\ scope = "none")
    /\ closeCalls.ctor <= 1
    /\ closeCalls.ctor = 1 => (scope = "none" /\ closeCalls.exit = 0)

\* The body was left by an error and __exit__'s close has returned.
C9_Witness ==
    /\ cpc = "exited"
    /\ scope = "error"
    /\ closeCalls.exit = 1

\* C10: the k-th frame enqueued carries sequence number k-1, whatever was
\* evicted or taken; the counter equals the number of frames enqueued
\* (one behind it between the put and the increment), so empty polls and
\* failed processing use up no number.
C10_SequenceNumbers ==
    /\ \A i \in 1..Len(putLog) : putLog[i][2] = i - 1
    /\ frame_cnt = IF tpc = "count" THEN Len(putLog) - 1 ELSE Len(putLog)

\* Three frames enqueued, one of them evicted and one taken, and the loop
\* then ended by a fault with frames 0..2 numbered 0..2.
C10_Witness ==
    /\ Len(putLog) = 3
    /\ Len(Successes(takeLog)) = 1
    /\ Len(queue) = 1
    /\ tpc = "cleanup"
    /\ ~stop_event
    /\ frame_cnt = 3

\* The loop has ended: run() is past its while statement.
LoopEnded == tpc \in {"cleanup", "done"}

\* The step in which get_nowait returns.
GetReturns == cpc = "get_body" /\ cpc' # cpc

\* A fault ends the loop and touches neither the queue nor the consumer;
\* after it nothing is enqueued, and the queue changes only by a
\* get_nowait handing out its oldest item.
FaultStep ==
    /\ polls'.faults > polls.faults =>
        /\ LoopEnded'
        /\ UNCHANGED <<queueVars, histVars, consVars>>
    /\ polls.faults > 0 =>
        /\ putLog' = putLog
        /\ \/ queue' = queue
           \/ GetReturns /\ queue # <<>> /\ ret' = Head(queue)
                /\ queue' = Tail(queue)
        /\ (GetReturns /\ queue = <<>>) => (ret' = NoFrame /\ queue' = <<>>)

\* C11: a fault while polling or transforming ends the acquisition loop
\* only: nothing is raised into the consumer, the queue keeps exactly what
\* it held, later get_nowait calls hand those frames out oldest first and
\* then only (None, None), and no frame is enqueued after the fault.
C11_FaultContained ==
    /\ [](polls.faults > 0 => (LoopEnded /\ polls.faults = 1))
    /\ [][FaultStep]_vars

\* The loop faulted after two frames; the consumer then took frame 0,
\* frame 1 and (None, None).
C11_Witness ==
    /\ polls.faults = 1
    /\ Len(putLog) = 2
    /\ cpc = "body"
    /\ takeLog = << <<0, 0>>, <<1, 1>>, NoFrame >>
    /\ queue = <<>>

InClose == cpc \in {"close_stop", "close_join", "close_camera",
                    "close_dispose", "close_sdk"}

\* C12: with the thread started (polling, mid-iteration or already ended
\* by a fault) and both threads scheduled fairly, the join in close
\* returns and close completes.
C12_CloseTerminates ==
    /\ (cpc = "close_join" /\ ThreadWasStarted) ~> (cpc = "close_camera")
    /\ (InClose /\ ThreadWasStarted) ~> ~InClose

\* close() is blocked in join while the loop, its flag set, is in the
\* middle of a put.
C12_Witness ==
    /\ cpc = "close_join"
    /\ stop_event
    /\ tpc = "put_evict"
    /\ closeCtx = "exit"

\* close() has been left for good: Open has failed, or the scope is left.
CloseOver == cpc \in {"failed", "exited"}

\* C13: close never raises to its caller, and when one release step
\* fails it still attempts every remaining release: once close is over,
\* no exception of a release step has reached a caller, and the device
\* and the SDK the controller holds have each had their dispose called.
C13_CloseBestEffort ==
    /\ raisedErr \notin CloseErrors
    /\ CloseOver =>
        /\ ctl.camera => hw.disposes >= 1
        /\ ctl.sdk => hw.sdkDisposes >= 1

ThreadNotRunning == tpc \in {"none", "ready", "done"}

\* What close() has done when it stands at each of its later steps, and
\* what has been done before each release.
ReleaseOrder ==
    /\ (cpc \in {"close_camera", "close_dispose", "close_sdk"}
            /\ ctl.acquisition_thread) => (stop_event /\ tpc = "done")
    /\ cpc = "close_dispose" => ~hw.armed
    /\ (cpc = "close_sdk" /\ ctl.camera) => hw.disposes >= 1
    /\ (hw.disarms > 0 \/ hw.disposes > 0) => tpc \in {"none", "done"}
    /\ hw.disposes > 0 => ~hw.armed
    /\ (hw.sdkDisposes > 0 /\ ctl.camera) => hw.disposes > 0
    /\ CloseOver => ThreadNotRunning

\* disarm is called on an armed device only; once the device is disposed
\* or close is over, the thread takes no step: no poll, no put.
ReleaseStep ==
    /\ hw'.disarms > hw.disarms => hw.armed
    /\ (hw.disposes > 0 \/ CloseOver) =>
        UNCHANGED <<tpc, devFrames, putLog, frame_cnt>>

\* C14: close sets the stop flag, joins the thread, disarms the device
\* only if armed, disposes the device, disposes the SDK, in that order;
\* the thread has exited before the device is disarmed or disposed, and
\* never polls or enqueues after the dispose or after close returned.
C14_ReleaseOrder == []ReleaseOrder /\ [][ReleaseStep]_vars

\* close() has joined the thread, which had enqueued frames, has
\* disarmed the device and is about to dispose it.
C14_Witness ==
    /\ cpc = "close_dispose"
    /\ hw.disarms = 1
    /\ tpc = "done"
    /\ Len(putLog) > 0

Released(n) == m2c.procDisposes = n /\ m2c.sdkDisposes = n

\* C15: for a Bayer sensor the color processor and its SDK are each
\* released exactly once when the loop has ended, by the stop flag or by
\* a fault, and not before the loop has ended; for a monochrome sensor
\* nothing is released.
C15_ColorReleasedOnce ==
    /\ tpc = "done" => Released(IF is_color THEN 1 ELSE 0)
    /\ tpc # "done" => Released(0)
    /\ is_color => (m2c.procCreated = 1 /\ m2c.sdkCreated = 1)
    /\ (ThreadWasStarted /\ ~is_color) =>
        (m2c.procCreated = 0 /\ m2c.sdkCreated = 0)

\* A Bayer camera whose loop was ended by a fault, not by stop(): both
\* color resources released once.
C15_Witness ==
    /\ is_color
    /\ tpc = "done"
    /\ polls.faults = 1
    /\ ~stop_event
    /\ Released(1)

\* C16: the stop flag is looked at before every iteration, so after
\* stop() has set it the loop polls the device at most once more and
\* enqueues at most one more frame before it ends.
C16_StopWithinOneIteration ==
    /\ polls.afterStop <= 1
    /\ polls.putsAfterStop <= 1
    /\ (tpc = "poll" /\ stop_event) => polls.afterStop = 0
    /\ ~stop_event => (polls.afterStop = 0 /\ polls.putsAfterStop = 0)

\* stop() came just after the loop's test of the flag: one more poll, one
\* more frame enqueued, then the loop ended.
C16_Witness ==
    /\ stop_event
    /\ polls.afterStop = 1
    /\ polls.putsAfterStop = 1
    /\ tpc = "done"

\* Whoever holds the queue's mutex can take its next step at once, and a
\* put waits for the mutex only while a get_nowait is inside it; a thread
\* that has not ended has a step to take, or waits for that get_nowait.
ProducerNeverStuck ==
    /\ tpc = "put_lock" =>
        \/ mutex = "free" /\ ENABLED PutAcquire
        \/ mutex = "consumer" /\ cpc = "get_body" /\ ENABLED GetBody
    /\ tpc = "put_evict" => ENABLED PutEvict
    /\ tpc = "put_append" => ENABLED PutAppend
    /\ (ThreadWasStarted /\ tpc # "done") =>
        (ENABLED Acquisition \/ ENABLED GetBody)

\* C17: a processed frame is always enqueued, whatever the queue's fill
\* level and whether or not the consumer ever takes: the put is never
\* blocked for want of room and never fails, the two threads do not
\* deadlock, and the sequence counter then advances by one.
C17_ProducerNeverBlocked ==
    /\ []ProducerNeverStuck
    /\ \A n \in 0..MaxFrames :
        (tpc = "put_lock" /\ frame_cnt = n) ~> (frame_cnt = n + 1)

\* The loop holds a processed frame and the queue is full, the consumer
\* having never taken anything.
C17_Witness ==
    /\ tpc = "put_lock"
    /\ Len(queue) = QueueMaxsize
    /\ takeLog = <<>>
    /\ ~stop_event

SeqOf(item) == item[2]
Taken(item) == \E i \in 1..Len(takeLog) : takeLog[i] = item
Queued(item) == \E i \in 1..Len(queue) : queue[i] = item
\* Frames in hand or enqueued so far: the put under way has a frame that
\* is not in the log yet.
FramesProduced == Len(putLog) + (IF tpc = "put_append" THEN 1 ELSE 0)

\* C18: a non-empty queue holds consecutive sequence numbers in
\* increasing order, the last being that of the frame enqueued most
\* recently; a frame neither taken nor queued any more is older than the
\* 2 newest frames produced.
C18_QueueIsNewestRun ==
    /\ queue # <<>> =>
        \A i \in 1..Len(queue) :
            SeqOf(queue[i]) = SeqOf(putLog[Len(putLog)]) - (Len(queue) - i)
    /\ \A k \in 1..Len(putLog) :
        (~Taken(putLog[k]) /\ ~Queued(putLog[k])) =>
            k <= FramesProduced - QueueMaxsize

\* Frame 0 was lost to the put of frame 2, frame 1 was taken, and the
\* queue holds frame 2 alone.
C18_Witness ==
    /\ Len(putLog) = 3
    /\ takeLog = << <<1, 1>> >>
    /\ queue = << <<2, 2>> >>

\* C19: for every bit depth b in 8..16 and raw sample 0 <= v < 2^b the
\* monochrome sample produced is floor(v / 2^(b-8)) and lies in 0..255:
\* the narrowing to 8 bits drops nothing.
C19_MonoConversion ==
    pixel # None =>
        /\ pixel \in 0..255
        /\ pixel * 2 ^ (bit_depth - 8) <= sample
        /\ sample < (pixel + 1) * 2 ^ (bit_depth - 8)

\* b = 12, v = 4095 gives 255.
C19_Witness ==
    /\ bit_depth = 12
    /\ sample = 4095
    /\ pixel = 255

\* C20: the sequence numbers the consumer gets from successive successful
\* get_nowait calls are strictly increasing: gaps may occur, but no frame
\* is delivered twice and none after a frame with a higher number.
C20_ConsumerSeesIncreasing ==
    LET got == Successes(takeLog) IN
    \A i \in 1..Len(got) : \A j \in 1..Len(got) :
        i < j => SeqOf(got[i]) < SeqOf(got[j])

\* The first call found nothing; frame 0 was then evicted unseen and the
\* next two calls delivered frames 1 and 2.
C20_Witness ==
    /\ Len(putLog) = 3
    /\ takeLog = << NoFrame, <<1, 1>>, <<2, 2>> >>

====
